---- MODULE Spec2Model ----
(***************************************************************************)
(* Model of the ETH AI trading agent mock backend (backend/main.py and     *)
(* backend/api/*.py): the Settings singleton with its GET and PATCH        *)
(* handlers, and the read-only fixture readers.                            *)
(*                                                                         *)
(* Encoding of values.                                                     *)
(*   - A JSON value is a set with at most one element: JNull = {} is       *)
(*     Python's None / JSON null, J(v) = {v} is the value v.               *)
(*   - Floats are never computed on by the program; a float is the string  *)
(*     of its decimal literal ("2.5").                                     *)
(*   - A raw PATCH body is the JSON object as received: one token per      *)
(*     field, Absent when the key is not in the object.                    *)
(***************************************************************************)
EXTENDS Integers, Sequences, FiniteSets, Bags, TLC

VARIABLES
    mock_settings_data,       \* settings.py: the Settings singleton
    mock_signal_data,         \* signal.py: timeframe -> Signal fixture
    mock_trade_log_data,      \* trade_log.py: sequence of Trade
    mock_performance_data,    \* performance.py
    mock_sentiment_data,      \* sentiment.py
    mock_risk_analysis_data,  \* risk_analysis.py
    request,                  \* the request being answered (sequential server)
    response,                 \* the response to it
    patched,                  \* has a PATCH been applied since startup
    history,                  \* the last applied PATCH: its body and the
                              \* singleton it was applied to
    tasks,                    \* concurrent server: bag of in-flight handler calls
    observed,                 \* concurrent server: the last response sent
    last_executed             \* concurrent server: per field, the value given
                              \* by the last completed call that provided one

fixtures ==
    <<mock_signal_data, mock_trade_log_data, mock_performance_data,
      mock_sentiment_data, mock_risk_analysis_data>>

seqVars == <<request, response, patched>>

concVars == <<tasks, observed, last_executed>>

vars == <<mock_settings_data, fixtures, seqVars, concVars, history>>

----
\* JSON values

JNull == {}

J(v) == {v}

----
\* models.py: SettingsData / SettingsUpdate

\* The fields in declaration order, which is the order of settings.dict().
FieldOrder ==
    <<"autoTrading", "stopLoss", "takeProfit", "telegramAlerts", "accountType">>

Fields == {FieldOrder[i] : i \in 1..Len(FieldOrder)}

BoolFields == {"autoTrading", "telegramAlerts"}

FloatFields == {"stopLoss", "takeProfit"}

----
\* Raw JSON tokens a client may send for a field

Absent == "<absent>"

NullToken == "null"

\* Floats the clients send (besides null and a non-numeric string).
FloatTokens == {"1.0", "3.0"}

BoolTokens == {"true", "false"}

\* Tokens that fail type conformance: a string that is no boolean, a string
\* that is no number, a string outside the Literal.
BadBoolToken == "\"maybe\""

BadFloatToken == "\"abc\""

BadLiteralToken == "\"margin\""

RawTokens(f) ==
    IF f \in BoolFields THEN BoolTokens \cup {NullToken, BadBoolToken, Absent}
    ELSE IF f \in FloatFields THEN FloatTokens \cup {NullToken, BadFloatToken, Absent}
    ELSE {"\"futures\"", "\"spot\"", NullToken, BadLiteralToken, Absent}

RawBodies ==
    [autoTrading : RawTokens("autoTrading"),
     stopLoss : RawTokens("stopLoss"),
     takeProfit : RawTokens("takeProfit"),
     telegramAlerts : RawTokens("telegramAlerts"),
     accountType : RawTokens("accountType")]

EmptyBody == [f \in Fields |-> Absent]

----
\* Validation of a raw body against SettingsUpdate

\* Optional[Literal["futures", "spot"]] without the Literal check.
ParseLiteralAnyString(tok) ==
    IF tok = NullToken THEN [ok |-> TRUE, value |-> JNull]
    ELSE IF tok = "\"futures\"" THEN [ok |-> TRUE, value |-> J("futures")]
    ELSE IF tok = "\"spot\"" THEN [ok |-> TRUE, value |-> J("spot")]
    ELSE IF tok = BadLiteralToken THEN [ok |-> TRUE, value |-> J("margin")]
    ELSE [ok |-> FALSE, value |-> JNull]

\* accountType: Optional[Literal["futures", "spot"]]
ParseLiteral(tok) ==
    IF tok = NullToken THEN [ok |-> TRUE, value |-> JNull]
    ELSE IF tok = "\"futures\"" THEN [ok |-> TRUE, value |-> J("futures")]
    ELSE IF tok = "\"spot\"" THEN [ok |-> TRUE, value |-> J("spot")]
    ELSE [ok |-> FALSE, value |-> JNull]

\* autoTrading, telegramAlerts: Optional[bool]
ParseBool(tok) ==
    IF tok = NullToken THEN [ok |-> TRUE, value |-> JNull]
    ELSE IF tok = "true" THEN [ok |-> TRUE, value |-> J(TRUE)]
    ELSE IF tok = "false" THEN [ok |-> TRUE, value |-> J(FALSE)]
    ELSE [ok |-> FALSE, value |-> JNull]

\* stopLoss, takeProfit: Optional[float]
ParseFloat(tok) ==
    IF tok = NullToken THEN [ok |-> TRUE, value |-> JNull]
    ELSE IF tok \in FloatTokens THEN [ok |-> TRUE, value |-> J(tok)]
    ELSE [ok |-> FALSE, value |-> JNull]

ParseField(f, tok) ==
    IF f \in BoolFields THEN ParseBool(tok)
    ELSE IF f \in FloatFields THEN ParseFloat(tok)
    ELSE ParseLiteral(tok)

\* SettingsUpdate(**raw): the fields that were sent (fields_set), each
\* field's value (None when not sent), and the fields that failed.
SettingsUpdate(raw) ==
    LET sent == {f \in Fields : raw[f] # Absent}
    IN  [fields_set |-> sent,
         value |-> [f \in Fields |->
                      IF f \in sent THEN ParseField(f, raw[f]).value ELSE JNull],
         errors |-> {f \in sent : ~ParseField(f, raw[f]).ok}]

\* settings.dict(exclude_unset=True).items(): the sent fields, in order.
RECURSIVE ItemsFrom(_, _)
ItemsFrom(settings, i) ==
    IF i > Len(FieldOrder) THEN <<>>
    ELSE LET key == FieldOrder[i]
             rest == ItemsFrom(settings, i + 1)
         IN  IF key \in settings.fields_set
             THEN <<[key |-> key, value |-> settings.value[key]]>> \o rest
             ELSE rest

DictExcludeUnset(settings) == ItemsFrom(settings, 1)

----
\* settings.py

InitialSettingsAutoTradingOn ==
    [autoTrading |-> J(TRUE),
     stopLoss |-> J("2.5"),
     takeProfit |-> J("5.0"),
     telegramAlerts |-> J(TRUE),
     accountType |-> J("futures")]

InitialSettings ==
    [autoTrading |-> J(FALSE),
     stopLoss |-> J("2.5"),
     takeProfit |-> J("5.0"),
     telegramAlerts |-> J(TRUE),
     accountType |-> J("futures")]

\* The loop body without its "is not None" test.
ApplyItemAlways(data, key, value) == [data EXCEPT ![key] = value]

\* if value is not None: mock_settings_data[key] = value
ApplyItem(data, key, value) ==
    IF value # JNull THEN [data EXCEPT ![key] = value] ELSE data

RECURSIVE ApplyItems(_, _)
ApplyItems(data, items) ==
    IF items = <<>> THEN data
    ELSE ApplyItems(ApplyItem(data, Head(items).key, Head(items).value),
                    Tail(items))

\* A reader that puts the defaults back.
get_settings_resets(data) == [data |-> InitialSettings, ret |-> InitialSettings]

\* get_settings(): the singleton is returned, nothing is written.
get_settings(data) == [data |-> data, ret |-> data]

\* The return statement indented into the loop: one item is applied.
update_settings_return_in_loop(data, settings) ==
    LET items == DictExcludeUnset(settings)
        merged == ApplyItems(data, IF items = <<>> THEN <<>> ELSE <<Head(items)>>)
    IN  [data |-> merged, ret |-> merged]

\* The update merged onto the defaults instead of the current singleton.
update_settings_onto_defaults(data, settings) ==
    LET merged == ApplyItems(InitialSettings, DictExcludeUnset(settings))
    IN  [data |-> merged, ret |-> merged]

\* update_settings(settings): the merge loop, then the singleton is returned.
update_settings(data, settings) ==
    LET merged == ApplyItems(data, DictExcludeUnset(settings))
    IN  [data |-> merged, ret |-> merged]

\* response_model=SettingsData: every field is required and non-null; a
\* returned value that does not conform is a server error.
SerializeSettings(ret) ==
    IF \A f \in Fields : ret[f] # JNull
    THEN [status |-> "ok", body |-> ret]
    ELSE [status |-> "server_error", body |-> [detail |-> {f \in Fields : ret[f] = JNull}]]

\* settings: SettingsUpdate = Body(...): the body is required and must
\* conform to SettingsUpdate before the handler is called.
ValidateBody(has_body, raw) ==
    LET settings == SettingsUpdate(raw)
    IN  IF ~has_body THEN [ok |-> FALSE, settings |-> settings, detail |-> {"body"}]
        ELSE [ok |-> settings.errors = {}, settings |-> settings,
              detail |-> settings.errors]

----
\* signal.py

SignalKeys == {"1m", "5m", "15m", "1h", "4h", "1d"}

SignalFixture ==
    ("default" :> [signal |-> "SELL", entryPoint |-> "1589.9", stopLoss |-> "1610.5",
                   targetPrice |-> "1550.0", confidence |-> 81,
                   timestamp |-> "2023-07-21 14:00:00 (1h)",
        reasoning |-> "Hourly chart showing bearish divergence on RSI. Price rejected at key resistance level with increasing sell volume."]) @@
    ("1m" :> [signal |-> "SELL", entryPoint |-> "1589.9", stopLoss |-> "1595.0",
              targetPrice |-> "1580.0", confidence |-> 65,
              timestamp |-> "2023-07-21 14:45:12 (1m)",
        reasoning |-> "Short-term momentum showing downward pressure with increasing sell volume."]) @@
    ("5m" :> [signal |-> "SELL", entryPoint |-> "1589.9", stopLoss |-> "1600.0",
              targetPrice |-> "1570.0", confidence |-> 72,
              timestamp |-> "2023-07-21 14:40:05 (5m)",
        reasoning |-> "Price breaking below 5-minute support with strong volume confirmation. MACD showing bearish crossover."]) @@
    ("15m" :> [signal |-> "SELL", entryPoint |-> "1589.9", stopLoss |-> "1605.0",
               targetPrice |-> "1560.0", confidence |-> 78,
               timestamp |-> "2023-07-21 14:32:05 (15m)",
        reasoning |-> "15-minute chart showing clear downtrend with lower highs. RSI indicating bearish momentum."]) @@
    ("1h" :> [signal |-> "SELL", entryPoint |-> "1589.9", stopLoss |-> "1610.5",
              targetPrice |-> "1550.0", confidence |-> 81,
              timestamp |-> "2023-07-21 14:00:00 (1h)",
        reasoning |-> "Hourly chart showing bearish divergence on RSI. Price rejected at key resistance level with increasing sell volume."]) @@
    ("4h" :> [signal |-> "SELL", entryPoint |-> "1589.9", stopLoss |-> "1620.0",
              targetPrice |-> "1540.0", confidence |-> 85,
              timestamp |-> "2023-07-21 12:00:00 (4h)",
        reasoning |-> "4-hour chart showing clear bearish pattern with decreasing buy volume. Multiple resistance rejections."]) @@
    ("1d" :> [signal |-> "HOLD", entryPoint |-> "1589.9", stopLoss |-> "1550.0",
              targetPrice |-> "1650.0", confidence |-> 60,
              timestamp |-> "2023-07-21 00:00:00 (1d)",
        reasoning |-> "Daily chart showing consolidation pattern. Waiting for clear breakout direction."])

\* timeframe: str = Query("15m"): the value used when the query has none.
QueryDefault(q) == IF q = Absent THEN "15m" ELSE q

\* A lookup that falls back to the query's default key instead.
get_signal_fallback_15m(table, timeframe) ==
    IF timeframe \in DOMAIN table THEN table[timeframe] ELSE table["15m"]

\* if timeframe in mock_signal_data: return mock_signal_data[timeframe]
\* return mock_signal_data["default"]
get_signal(table, timeframe) ==
    IF timeframe \in DOMAIN table THEN table[timeframe] ELSE table["default"]

----
\* trade_log.py

TradeLogFixture ==
    <<[id |-> "1", date |-> "2023-06-01 14:30", direction |-> "BUY",
       entry |-> "0.5123", exit |-> "0.5345", pnl |-> "4.33", status |-> "COMPLETED"],
      [id |-> "2", date |-> "2023-06-02 09:15", direction |-> "SELL",
       entry |-> "0.542", exit |-> "0.521", pnl |-> "3.87", status |-> "COMPLETED"],
      [id |-> "3", date |-> "2023-06-03 11:45", direction |-> "BUY",
       entry |-> "0.518", exit |-> "0.511", pnl |-> "-1.35", status |-> "COMPLETED"],
      [id |-> "4", date |-> "2023-06-04 16:20", direction |-> "BUY",
       entry |-> "0.523", exit |-> "0", pnl |-> "0", status |-> "OPEN"],
      [id |-> "5", date |-> "2023-06-05 10:05", direction |-> "SELL",
       entry |-> "0.531", exit |-> "0.541", pnl |-> "-1.88", status |-> "COMPLETED"],
      [id |-> "6", date |-> "2023-06-06 13:45", direction |-> "BUY",
       entry |-> "0.525", exit |-> "0.538", pnl |-> "2.48", status |-> "COMPLETED"],
      [id |-> "7", date |-> "2023-06-07 15:30", direction |-> "BUY",
       entry |-> "0.54", exit |-> "0.552", pnl |-> "2.22", status |-> "COMPLETED"],
      [id |-> "8", date |-> "2023-06-08 09:20", direction |-> "SELL",
       entry |-> "0.549", exit |-> "0", pnl |-> "0", status |-> "OPEN"]>>

\* The open trades moved to the front of the log.
get_trade_log_open_first(log) ==
    SelectSeq(log, LAMBDA t : t.status = "OPEN") \o
    SelectSeq(log, LAMBDA t : t.status # "OPEN")

\* return mock_trade_log_data
get_trade_log(log) == log

----
\* performance.py, sentiment.py, risk_analysis.py

PerformanceFixture ==
    [winRate |-> "68.5", avgPnl |-> "2.4", totalTrades |-> 124, monthlyPnl |-> "18.7",
     pnlHistory |->
        <<[date |-> "2023-06-01", pnl |-> "4.33"], [date |-> "2023-06-02", pnl |-> "8.2"],
          [date |-> "2023-06-03", pnl |-> "6.85"], [date |-> "2023-06-04", pnl |-> "6.85"],
          [date |-> "2023-06-05", pnl |-> "4.97"], [date |-> "2023-06-06", pnl |-> "7.25"],
          [date |-> "2023-06-07", pnl |-> "10.5"], [date |-> "2023-06-08", pnl |-> "12.8"],
          [date |-> "2023-06-09", pnl |-> "11.2"], [date |-> "2023-06-10", pnl |-> "14.5"],
          [date |-> "2023-06-11", pnl |-> "13.8"], [date |-> "2023-06-12", pnl |-> "16.2"],
          [date |-> "2023-06-13", pnl |-> "15.4"], [date |-> "2023-06-14", pnl |-> "18.7"]>>]

SentimentFixture ==
    [overallSentiment |-> 65,
     sources |-> <<[name |-> "Social Media", score |-> 72, change |-> "5.3"],
                   [name |-> "News Articles", score |-> 58, change |-> "-2.1"],
                   [name |-> "Trading Volume", score |-> 81, change |-> "12.7"]>>,
     lastUpdated |-> "2023-07-21 15:30:00"]

RiskAnalysisFixture ==
    [overallRisk |-> 42,
     metrics |->
        <<[name |-> "Volatility", description |-> "30-day price volatility is above average",
           value |-> 68, threshold |-> 60, isHighRisk |-> TRUE],
          [name |-> "Liquidity", description |-> "Market liquidity is healthy",
           value |-> 75, threshold |-> 40, isHighRisk |-> FALSE],
          [name |-> "Market Correlation", description |-> "High correlation with BTC movements",
           value |-> 82, threshold |-> 70,
           isHighRisk |-> TRUE],
          [name |-> "Support Strength", description |-> "Multiple support levels identified",
           value |-> 65, threshold |-> 50,
           isHighRisk |-> FALSE]>>,
     recommendations |->
        <<"Reduce position size by 25%", "Tighten stop loss to 2%",
          "Consider diversifying into other trading pairs">>]

get_performance(data) == data

get_sentiment(data) == data

get_risk_analysis(data) == data

\* main.py: root()
root == [message |-> "ETH AI Trading Agent API is running"]

----
\* The server answering one request at a time

NoRequest ==
    [method |-> "none", path |-> "", has_body |-> FALSE, raw |-> EmptyBody,
     timeframe |-> Absent]

NoResponse == [status |-> "none", body |-> <<>>]

NoHistory == [applied |-> FALSE, data |-> InitialSettings, raw |-> EmptyBody]

Req(method, path, has_body, raw, timeframe) ==
    [method |-> method, path |-> path, has_body |-> has_body, raw |-> raw,
     timeframe |-> timeframe]

\* Values of the timeframe query parameter the clients send.
QueryTimeframes == SignalKeys \cup {"default", "2h", "1H", "", Absent}

Init ==
    /\ mock_settings_data = InitialSettings
    /\ mock_signal_data = SignalFixture
    /\ mock_trade_log_data = TradeLogFixture
    /\ mock_performance_data = PerformanceFixture
    /\ mock_sentiment_data = SentimentFixture
    /\ mock_risk_analysis_data = RiskAnalysisFixture
    /\ request = NoRequest
    /\ response = NoResponse
    /\ patched = FALSE
    /\ tasks = EmptyBag
    /\ observed = NoResponse
    /\ last_executed = [f \in Fields |-> JNull]
    /\ history = NoHistory

\* GET /api/settings
GetSettings ==
    /\ request = NoRequest
    /\ \E r \in {get_settings(mock_settings_data)} :
          /\ mock_settings_data' = r.data
          /\ response' = SerializeSettings(r.ret)
    /\ request' = Req("GET", "/api/settings", FALSE, EmptyBody, Absent)
    /\ UNCHANGED <<fixtures, patched, concVars, history>>

\* PATCH /api/settings with no body, or with the JSON object raw
HandlePatch(has_body, raw) ==
    /\ request = NoRequest
    /\ request' = Req("PATCH", "/api/settings", has_body, raw, Absent)
    /\ \E v \in {ValidateBody(has_body, raw)} :
          IF v.ok
          THEN \E r \in {update_settings(mock_settings_data, v.settings)} :
                  /\ mock_settings_data' = r.data
                  /\ response' = SerializeSettings(r.ret)
                  /\ patched' = TRUE
          ELSE /\ response' = [status |-> "client_error", body |-> [detail |-> v.detail]]
               /\ UNCHANGED <<mock_settings_data, patched>>
    /\ UNCHANGED <<fixtures, concVars>>

PatchSettings(has_body, raw) == HandlePatch(has_body, raw) /\ UNCHANGED history

\* GET /api/signal?timeframe=q
GetSignal(q) ==
    /\ request = NoRequest
    /\ request' = Req("GET", "/api/signal", FALSE, EmptyBody, q)
    /\ response' = [status |-> "ok",
                    body |-> get_signal(mock_signal_data, QueryDefault(q))]
    /\ UNCHANGED <<mock_settings_data, fixtures, patched, concVars, history>>

\* GET /api/tradeLog
GetTradeLog ==
    /\ request = NoRequest
    /\ request' = Req("GET", "/api/tradeLog", FALSE, EmptyBody, Absent)
    /\ response' = [status |-> "ok", body |-> get_trade_log(mock_trade_log_data)]
    /\ UNCHANGED <<mock_settings_data, fixtures, patched, concVars, history>>

\* GET /api/performance
GetPerformance ==
    /\ request = NoRequest
    /\ request' = Req("GET", "/api/performance", FALSE, EmptyBody, Absent)
    /\ response' = [status |-> "ok", body |-> get_performance(mock_performance_data)]
    /\ UNCHANGED <<mock_settings_data, fixtures, patched, concVars, history>>

\* GET /api/sentiment
GetSentiment ==
    /\ request = NoRequest
    /\ request' = Req("GET", "/api/sentiment", FALSE, EmptyBody, Absent)
    /\ response' = [status |-> "ok", body |-> get_sentiment(mock_sentiment_data)]
    /\ UNCHANGED <<mock_settings_data, fixtures, patched, concVars, history>>

\* GET /api/riskAnalysis
GetRiskAnalysis ==
    /\ request = NoRequest
    /\ request' = Req("GET", "/api/riskAnalysis", FALSE, EmptyBody, Absent)
    /\ response' = [status |-> "ok",
                    body |-> get_risk_analysis(mock_risk_analysis_data)]
    /\ UNCHANGED <<mock_settings_data, fixtures, patched, concVars, history>>

\* GET /
GetRoot ==
    /\ request = NoRequest
    /\ request' = Req("GET", "/", FALSE, EmptyBody, Absent)
    /\ response' = [status |-> "ok", body |-> root]
    /\ UNCHANGED <<mock_settings_data, fixtures, patched, concVars, history>>

\* The response reaches the client; the server is ready for the next request.
Deliver ==
    /\ request # NoRequest
    /\ request' = NoRequest
    /\ response' = NoResponse
    /\ UNCHANGED <<mock_settings_data, fixtures, patched, concVars, history>>

PatchMissingBody == PatchSettings(FALSE, EmptyBody)

PatchBody == request = NoRequest /\ \E raw \in RawBodies : PatchSettings(TRUE, raw)

GetSignalAny == request = NoRequest /\ \E q \in QueryTimeframes : GetSignal(q)

Next ==
    \/ GetSettings
    \/ PatchMissingBody
    \/ PatchBody
    \/ GetSignalAny
    \/ GetTradeLog
    \/ GetPerformance
    \/ GetSentiment
    \/ GetRiskAnalysis
    \/ GetRoot
    \/ Deliver

Spec == Init /\ [][Next]_vars

----
\* The server under concurrent requests to /api/settings.
\*
\* A handler call is a task: it arrives (pending), is called, runs its
\* steps and returns.  A handler declared "async def" is a coroutine run on
\* the server's event loop: it keeps the loop from its call to its first
\* suspension point, and neither handler has one (time.sleep blocks the
\* loop, it does not suspend the coroutine).  A handler declared "def" would
\* be run on a worker thread, whose steps interleave with everything.

\* Requests in flight at once.
MaxInFlight == 2

\* The fields the concurrent clients send.
ConcFields == {"stopLoss", "accountType"}

ConcTokens(f) == IF f \in ConcFields THEN RawTokens(f) ELSE {Absent}

\* The bodies the concurrent clients send: valid ones (null included).
ConcBodies ==
    {raw \in [autoTrading : ConcTokens("autoTrading"),
              stopLoss : ConcTokens("stopLoss"),
              takeProfit : ConcTokens("takeProfit"),
              telegramAlerts : ConcTokens("telegramAlerts"),
              accountType : ConcTokens("accountType")] :
        ValidateBody(TRUE, raw).ok}

\* update_settings declared "def": run on a worker thread.
IsCoroutineOnlyGet(kind) == kind = "GET"

\* async def get_settings / async def update_settings
IsCoroutine(kind) == kind \in {"GET", "PATCH"}

Task(kind, raw, pc, i) == [kind |-> kind, raw |-> raw, pc |-> pc, i |-> i]

\* The items the handler's loop iterates over.
Items(t) ==
    IF t.kind = "PATCH" THEN DictExcludeUnset(SettingsUpdate(t.raw)) ELSE <<>>

Others(t) == BagToSet(tasks (-) SetToBag({t}))

\* The event loop runs one coroutine at a time, from call to return.
CanStep(t) ==
    IsCoroutine(t.kind) =>
        \A u \in Others(t) : u.pc = "running" => ~IsCoroutine(u.kind)

Replace(t, u) == (tasks (-) SetToBag({t})) (+) SetToBag({u})

\* A request reaches the server; its body has passed validation.
Arrive(kind, raw) ==
    /\ BagCardinality(tasks) < MaxInFlight
    /\ tasks' = tasks (+) SetToBag({Task(kind, raw, "pending", 1)})
    /\ UNCHANGED <<mock_settings_data, fixtures, seqVars, observed, last_executed, history>>

\* The handler is called and sleeps (time.sleep).
Call(t) ==
    /\ t.pc = "pending"
    /\ CanStep(t)
    /\ tasks' = Replace(t, Task(t.kind, t.raw, "running", 1))
    /\ UNCHANGED <<mock_settings_data, fixtures, seqVars, observed, last_executed, history>>

\* One iteration of update_settings' loop.
LoopItem(t) ==
    /\ t.pc = "running"
    /\ t.i <= Len(Items(t))
    /\ CanStep(t)
    /\ \E item \in {Items(t)[t.i]} :
          mock_settings_data' = ApplyItem(mock_settings_data, item.key, item.value)
    /\ tasks' = Replace(t, Task(t.kind, t.raw, "running", t.i + 1))
    /\ UNCHANGED <<fixtures, seqVars, observed, last_executed, history>>

\* The values of a PATCH that a later reader is to find: its non-null ones.
Provided(t, prior) ==
    [f \in Fields |->
        IF t.kind = "PATCH" /\ SettingsUpdate(t.raw).value[f] # JNull
        THEN SettingsUpdate(t.raw).value[f]
        ELSE prior[f]]

\* return mock_settings_data: the response is the singleton as it is now.
Return(t) ==
    /\ t.pc = "running"
    /\ t.i > Len(Items(t))
    /\ CanStep(t)
    /\ observed' = SerializeSettings(mock_settings_data)
    /\ last_executed' = Provided(t, last_executed)
    /\ tasks' = tasks (-) SetToBag({t})
    /\ UNCHANGED <<mock_settings_data, fixtures, seqVars, history>>

ArriveGet == Arrive("GET", EmptyBody)

ArrivePatch == \E raw \in ConcBodies : Arrive("PATCH", raw)

CallAny == \E t \in BagToSet(tasks) : Call(t)

LoopItemAny == \E t \in BagToSet(tasks) : LoopItem(t)

ReturnAny == \E t \in BagToSet(tasks) : Return(t)

NextConc ==
    \/ ArriveGet
    \/ ArrivePatch
    \/ CallAny
    \/ LoopItemAny
    \/ ReturnAny

SpecConc == Init /\ [][NextConc]_vars

----
\* Two PATCHes in a row, the first one remembered.

\* The fields the two updates are drawn over: a bool, a float, the Literal.
PairFields == {"autoTrading", "stopLoss", "accountType"}

PairTokens(f) == IF f \in PairFields THEN RawTokens(f) ELSE {Absent}

PairBodies ==
    {raw \in [autoTrading : PairTokens("autoTrading"),
              stopLoss : PairTokens("stopLoss"),
              takeProfit : PairTokens("takeProfit"),
              telegramAlerts : PairTokens("telegramAlerts"),
              accountType : PairTokens("accountType")] :
        ValidateBody(TRUE, raw).ok}

PatchPair ==
    /\ request = NoRequest
    /\ \E raw \in PairBodies :
          /\ HandlePatch(TRUE, raw)
          /\ history' = [applied |-> TRUE, data |-> mock_settings_data, raw |-> raw]

NextPair ==
    \/ PatchPair
    \/ GetSettings
    \/ Deliver

SpecPair == Init /\ [][NextPair]_vars

----
\* Properties

\* The value a well-typed, non-null token stands for.
Denotes(f, tok) ==
    IF f \in BoolFields THEN J(tok = "true")
    ELSE IF f \in FloatFields THEN J(tok)
    ELSE IF tok = "\"futures\"" THEN J("futures") ELSE J("spot")

WellTyped(f, tok) ==
    IF f \in BoolFields THEN tok \in {"true", "false"}
    ELSE IF f \in FloatFields THEN tok \in {"1.0", "3.0"}
    ELSE tok \in {"\"futures\"", "\"spot\""}

\* The fields a body gives a non-null value for.
NonNull(raw) == {f \in Fields : raw[f] \notin {Absent, NullToken}}

\* A partial update: every field absent, null or a valid value.
PartialUpdate(raw) == \A f \in NonNull(raw) : WellTyped(f, raw[f])

IsPatch(req) == req.method = "PATCH" /\ req.path = "/api/settings"

IsGetSettings(req) == req.method = "GET" /\ req.path = "/api/settings"

\* C1: a PATCH with a partial update P leaves the store with P's value on
\* each field P gives a non-null value for and the old value on every other
\* field, and answers with exactly that store; update({}) changes nothing.
C1_PatchMergesPartialUpdate ==
    [][(request = NoRequest /\ IsPatch(request') /\ request'.has_body
            /\ PartialUpdate(request'.raw))
        => /\ \A f \in Fields :
                mock_settings_data'[f] =
                    IF f \in NonNull(request'.raw)
                    THEN Denotes(f, request'.raw[f])
                    ELSE mock_settings_data[f]
           /\ response' = [status |-> "ok", body |-> mock_settings_data']
           /\ (request'.raw = EmptyBody => mock_settings_data' = mock_settings_data)
      ]_vars

\* C1 witness: a PATCH giving stopLoss 3.0, a null autoTrading and no
\* accountType has been answered, on a store whose accountType was changed.
C1_Witness ==
    /\ IsPatch(request)
    /\ response.status = "ok"
    /\ request.raw.stopLoss = "3.0"
    /\ request.raw.autoTrading = NullToken
    /\ request.raw.accountType = Absent
    /\ request.raw.takeProfit = "1.0"
    /\ mock_settings_data.stopLoss = J("3.0")
    /\ mock_settings_data.accountType = J("spot")

\* C2: in every state reached by GETs and PATCHes (null fields included),
\* the singleton has all five fields and none of them is null.
C2_NoFieldEverNull ==
    /\ DOMAIN mock_settings_data = Fields
    /\ \A f \in Fields : mock_settings_data[f] # JNull

\* C2 witness: a PATCH carrying an explicit null has been applied.
C2_Witness ==
    /\ IsPatch(request)
    /\ response.status = "ok"
    /\ request.raw.accountType = NullToken
    /\ request.raw.stopLoss = NullToken
    /\ request.raw.autoTrading = "true"

\* C3: two updates P1 then P2 with disjoint non-null fields end with P1's
\* values on P1's fields, P2's on P2's and the starting values elsewhere,
\* which is also what update(P2) then update(P1) gives from the same start.
C3_DisjointUpdatesCommute ==
    [][(request = NoRequest /\ IsPatch(request') /\ history.applied
            /\ NonNull(history.raw) \cap NonNull(request'.raw) = {})
        => /\ \A f \in Fields :
                mock_settings_data'[f] =
                    IF f \in NonNull(history.raw) THEN Denotes(f, history.raw[f])
                    ELSE IF f \in NonNull(request'.raw)
                         THEN Denotes(f, request'.raw[f])
                         ELSE history.data[f]
           /\ mock_settings_data' =
                update_settings(
                    update_settings(history.data,
                                    SettingsUpdate(request'.raw)).data,
                    SettingsUpdate(history.raw)).data
      ]_vars

\* C3 witness: update({accountType: "spot"}) then update({stopLoss: 1.0}).
C3_Witness ==
    /\ IsPatch(request)
    /\ history.applied
    /\ request.raw.stopLoss = "1.0"
    /\ request.raw.accountType = Absent
    /\ history.raw = request.raw
    /\ history.data.accountType = J("spot")
    /\ history.data.stopLoss = J("2.5")
    /\ mock_settings_data.accountType = J("spot")
    /\ mock_settings_data.stopLoss = J("1.0")

\* C4: a GET /settings answered before any PATCH has been applied returns
\* {autoTrading: false, stopLoss: 2.5, takeProfit: 5.0, telegramAlerts:
\* true, accountType: "futures"}.
C4_InitialSettingsReturned ==
    (IsGetSettings(request) /\ ~patched)
        => response =
            [status |-> "ok",
             body |-> [autoTrading |-> J(FALSE), stopLoss |-> J("2.5"),
                       takeProfit |-> J("5.0"), telegramAlerts |-> J(TRUE),
                       accountType |-> J("futures")]]

\* C4 witness: a GET /settings has been answered and no PATCH was applied.
C4_Witness == IsGetSettings(request) /\ ~patched /\ response.status = "ok"

IsGetSignal(req) == req.method = "GET" /\ req.path = "/api/signal"

\* C5: get_signal returns the fixture stored under a key of {1m, 5m, 15m,
\* 1h, 4h, 1d}, and for a timeframe that is no key of the table what
\* get_signal("default") returns; it is never an error.
C5_SignalLookupOrDefault ==
    (IsGetSignal(request) /\ request.timeframe # Absent)
        => /\ response.status = "ok"
           /\ request.timeframe \in {"1m", "5m", "15m", "1h", "4h", "1d"}
                => response.body = mock_signal_data[request.timeframe]
           /\ request.timeframe \notin DOMAIN mock_signal_data
                => response.body = mock_signal_data["default"]

\* C5 witness: timeframe "2h", no key of the table, was answered with the
\* default fixture, which is not the 15m one.
C5_Witness ==
    /\ IsGetSignal(request)
    /\ request.timeframe = "2h"
    /\ response.body.confidence = 81
    /\ mock_signal_data["15m"].confidence = 78

\* A body that is missing or has a field failing type conformance.
Malformed(req) ==
    \/ ~req.has_body
    \/ \E f \in NonNull(req.raw) : ~WellTyped(f, req.raw[f])

\* C6: a PATCH with a malformed body is answered with a client error
\* carrying a validation message, and the singleton is left as it was.
C6_MalformedBodyRejected ==
    [][(request = NoRequest /\ IsPatch(request') /\ Malformed(request'))
        => /\ response'.status = "client_error"
           /\ response'.body.detail # {}
           /\ mock_settings_data' = mock_settings_data
      ]_vars

\* C6 witness: a body with accountType "margin" and a valid stopLoss 3.0
\* was rejected while the stored stopLoss is 1.0.
C6_Witness ==
    /\ IsPatch(request)
    /\ request.raw.accountType = BadLiteralToken
    /\ request.raw.stopLoss = "3.0"
    /\ response.status = "client_error"
    /\ mock_settings_data.stopLoss = J("1.0")

NoneRunning == \A t \in BagToSet(tasks) : t.pc = "pending"

\* C7: last write wins per field: whenever every handler call that was
\* started has completed, each field holds the value given by the last
\* completed call that gave a non-null value for it, or its value at
\* startup when no call gave one.
C7_LastWriteWinsPerField ==
    NoneRunning
        => \A f \in Fields :
              mock_settings_data[f] =
                  IF last_executed[f] # JNull THEN last_executed[f]
                  ELSE InitialSettings[f]

\* C7 witness: of two concurrent PATCHes giving different stopLoss values
\* (the second also a null accountType), one has completed, after an
\* earlier call set accountType, and the other is still to be run.
C7_Witness ==
    /\ NoneRunning
    /\ last_executed.stopLoss = J("3.0")
    /\ last_executed.accountType = J("spot")
    /\ \E t \in BagToSet(tasks) :
          /\ t.kind = "PATCH"
          /\ t.raw.stopLoss = "1.0"
          /\ t.raw.accountType = NullToken

\* C8: fixtures never change, the singleton changes in no step but a
\* PATCH /settings, and every reader answers with its startup value.
C8_OnlyPatchWritesOnlySettings ==
    [][/\ fixtures' = fixtures
       /\ mock_settings_data' # mock_settings_data => IsPatch(request')
       /\ IsGetSettings(request') => response'.body = mock_settings_data
       /\ IsGetSignal(request')
            => response'.body =
                 IF QueryDefault(request'.timeframe) \in DOMAIN SignalFixture
                 THEN SignalFixture[QueryDefault(request'.timeframe)]
                 ELSE SignalFixture["default"]
       /\ request'.path = "/api/tradeLog" => response'.body = TradeLogFixture
       /\ request'.path = "/api/performance" => response'.body = PerformanceFixture
       /\ request'.path = "/api/sentiment" => response'.body = SentimentFixture
       /\ request'.path = "/api/riskAnalysis" => response'.body = RiskAnalysisFixture
      ]_vars

\* C8 witness: the risk analysis reader has answered after PATCHes changed
\* three fields of the singleton.
C8_Witness ==
    /\ request.path = "/api/riskAnalysis"
    /\ response.body.overallRisk = 42
    /\ patched
    /\ mock_settings_data.autoTrading = J(TRUE)
    /\ mock_settings_data.takeProfit = J("1.0")
    /\ mock_settings_data.accountType = J("spot")

Ids(log) == [i \in 1..Len(log) |-> log[i].id]

\* C9: GET /tradeLog returns the trades in the order the fixture defines
\* them, on every call, and no two of them have the same id.
C9_TradeLogOrderedUniqueIds ==
    request.path = "/api/tradeLog"
        => /\ response.status = "ok"
           /\ Ids(response.body) = <<"1", "2", "3", "4", "5", "6", "7", "8">>
           /\ response.body = mock_trade_log_data
           /\ \A i, j \in 1..Len(response.body) :
                 i # j => response.body[i].id # response.body[j].id

\* C9 witness: the trade log has been returned, on a call made after the
\* settings were patched.
C9_Witness ==
    /\ request.path = "/api/tradeLog"
    /\ Len(response.body) = 8
    /\ patched

\* A PATCH some of whose non-null fields are written and some are not yet.
PartiallyApplied(u) ==
    /\ u.kind = "PATCH"
    /\ u.pc = "running"
    /\ \E j \in 1..(u.i - 1) : Items(u)[j].value # JNull
    /\ \E j \in u.i..Len(Items(u)) : Items(u)[j].value # JNull

\* C10: a PATCH is applied as one indivisible step: whenever a handler
\* returns its response, no other PATCH is partially applied, and the
\* response of a PATCH holds all of that PATCH's own non-null values.
C10_PatchIsIndivisible ==
    [][BagCardinality(tasks') < BagCardinality(tasks)
        => /\ \A u \in BagToSet(tasks') : ~PartiallyApplied(u)
           /\ observed'.status = "ok"
           /\ \A t \in BagToSet(tasks) :
                 (tasks' = tasks (-) SetToBag({t}) /\ t.kind = "PATCH")
                    => \A f \in NonNull(t.raw) :
                          observed'.body[f] = Denotes(f, t.raw[f])
      ]_vars

\* C10 witness: a PATCH of two fields has written the first of them while
\* a GET and nothing else waits for the event loop, after an earlier
\* response was sent.
C10_Witness ==
    /\ observed.status = "ok"
    /\ \E t \in BagToSet(tasks) : PartiallyApplied(t)
    /\ \E u \in BagToSet(tasks) : u.kind = "GET" /\ u.pc = "pending"

====
